---- MODULE Spec2Model ----
(***************************************************************************)
(* Model of slide-gen-ai: topic -> validated slide plan -> one image per   *)
(* slide -> rendered deck.  External collaborators (the chat API, the HTTP *)
(* image hosts) are nondeterministic: every outcome they can produce is    *)
(* drawn with \E in the action that calls them.                            *)
(***************************************************************************)
EXTENDS Integers, Sequences, FiniteSets, TLC

\* ------------------------------------------------------------------ bounds
\* Longest slide plan the model's chat API answers with.
MaxSlides == 2
\* Longest provider list of a directly constructed ChainedImageProvider.
MaxChain == 2
\* Longest argument list of a direct build_presentation call.
MaxDeck == 2

\* ------------------------------------------------------- program constants
\* for _ in range(3) in _fetch_image_bytes
FetchAttempts == 3
\* "maxItems": 5 of bullet_points
MaxBullets == 5
\* the :02d of f"slide_{idx:02d}.png"
FilenameWidth == 2

\* ---------------------------------------------------------------- JSON
\* A JSON scalar or array as json.loads returns it.  jtype is the JSON
\* type, s the text of a string, items the elements of an array.
Scalar(t, s) == [jtype |-> t, s |-> s]
JStr(s) == [jtype |-> "string", s |-> s, items |-> <<>>]
JNum == [jtype |-> "number", s |-> "7", items |-> <<>>]
JNull == [jtype |-> "null", s |-> "", items |-> <<>>]
JArr(items) == [jtype |-> "array", s |-> "", items |-> items]

RECURSIVE Repeat(_, _)
Repeat(x, n) == IF n = 0 THEN <<>> ELSE Append(Repeat(x, n - 1), x)

\* len(s) >= 1 for a JSON string: the only string shorter is "".
MinLength1(v) == v.jtype = "string" /\ v.s # ""

SlideKeys == {"slide_type", "heading", "bullet_points", "image_prompt"}
SlideTypes == <<"title", "section", "content">>
PlanKeys == {"topic", "slides"}

\* "items" sub-schema of "slides" (SLIDE_PLAN_SCHEMA)
SlideItemValid(sl) ==
    /\ sl.jtype = "object"
    /\ sl.keys \subseteq SlideKeys
    /\ SlideKeys \subseteq sl.keys
    /\ sl.slide_type.jtype = "string"
    /\ sl.slide_type.s \in {SlideTypes[i] : i \in 1..Len(SlideTypes)}
    /\ MinLength1(sl.heading)
    /\ sl.bullet_points.jtype = "array"
    /\ Len(sl.bullet_points.items) <= MaxBullets
    /\ \A i \in 1..Len(sl.bullet_points.items) :
          /\ sl.bullet_points.items[i].jtype = "string"
          /\ sl.bullet_points.items[i].s # ""
    /\ MinLength1(sl.image_prompt)

\* SLIDE_PLAN_SCHEMA evaluated on a parsed value
SLIDE_PLAN_SCHEMA(d) ==
    /\ d.jtype = "object"
    /\ d.keys \subseteq PlanKeys
    /\ PlanKeys \subseteq d.keys
    /\ MinLength1(d.topic)
    /\ d.slides.jtype = "array"
    /\ Len(d.slides.items) >= 1
    /\ \A i \in 1..Len(d.slides.items) : SlideItemValid(d.slides.items[i])

\* ------------------------------------------------- what the chat API says
Headings == <<"Intro", "Agenda", "Details", "Summary", "Outlook", "Thanks">>
Prompts == <<"sunrise", "roadmap", "circuit", "harvest", "horizon", "applause">>
Topics == {"solar"}

\* The i-th slide of a well-formed plan whose first slide has type number
\* start + 1; its bullet count varies with its position.
GoodSlide(i, start) ==
    [jtype |-> "object", keys |-> SlideKeys,
     slide_type |-> JStr(SlideTypes[((start + i - 1) % 3) + 1]),
     heading |-> JStr(Headings[i]),
     bullet_points |-> JArr(Repeat(Scalar("string", "point"), (start + i - 1) % 3)),
     image_prompt |-> JStr(Prompts[i])]

BadSlides ==
    LET g == GoodSlide(1, 2) IN
    { [g EXCEPT !.slide_type = JStr("quote")],
      [g EXCEPT !.slide_type = JNum],
      [g EXCEPT !.heading = JStr("")],
      [g EXCEPT !.bullet_points = JArr(Repeat(Scalar("string", "point"), MaxBullets + 1))],
      [g EXCEPT !.bullet_points = JArr(<<Scalar("string", "")>>)],
      [g EXCEPT !.bullet_points = JStr("point")],
      [g EXCEPT !.image_prompt = JNull, !.keys = SlideKeys \ {"image_prompt"}],
      [g EXCEPT !.keys = SlideKeys \cup {"notes"}],
      [g EXCEPT !.jtype = "string"] }

PlanValue(topic, slides) ==
    [jtype |-> "object", keys |-> PlanKeys, topic |-> JStr(topic),
     slides |-> JArr(slides)]

GoodPlans ==
    { PlanValue(t, [i \in 1..n |-> GoodSlide(i, st)]) :
        t \in Topics, n \in 1..MaxSlides, st \in 0..2 }

BadPlans ==
    LET p == PlanValue("solar", <<GoodSlide(1, 0)>>) IN
    { PlanValue("solar", <<b>>) : b \in BadSlides }
    \cup { PlanValue("solar", <<GoodSlide(1, 0), b>>) : b \in BadSlides }
    \cup { [p EXCEPT !.jtype = "array"],
           [p EXCEPT !.topic = JStr("")],
           [p EXCEPT !.topic = JNull, !.keys = {"slides"}],
           [p EXCEPT !.keys = PlanKeys \cup {"notes"}],
           [p EXCEPT !.slides = JArr(<<>>)],
           [p EXCEPT !.slides = JStr("none")] }

\* The text of a chat message.  form "json" is a JSON document whose value
\* is `value`; "fenced" is the same document inside a markdown code fence;
\* "prose" is free text.  pad: the text has leading/trailing whitespace.
NoValue == PlanValue("", <<>>)
Content(form, pad, value) == [form |-> form, pad |-> pad, value |-> value]
NoContent == Content("none", FALSE, NoValue)

Contents ==
    { Content("json", FALSE, v) : v \in GoodPlans \cup BadPlans }
    \cup { Content("json", TRUE, PlanValue("solar", <<GoodSlide(1, 1)>>)),
           Content("fenced", FALSE, PlanValue("solar", <<GoodSlide(1, 0)>>)),
           Content("prose", TRUE, NoValue),
           Content("prose", FALSE, NoValue) }

\* What one OpenAIClient.chat call does: raise (HTTP error) or return content.
ChatOutcomes ==
    { [ok |-> FALSE, content |-> NoContent] }
    \cup { [ok |-> TRUE, content |-> c] : c \in Contents }

\* The answers considered when the whole of main runs after them.
MainChatOutcomes ==
    { o \in ChatOutcomes :
        \/ ~o.ok
        \/ o.content.form # "json"
        \/ o.content.value \in GoodPlans
        \/ o.content.value = PlanValue("solar", <<>>) }

\* ------------------------------------------------------------ exceptions
Exc(type, msg, at) == [type |-> type, msg |-> msg, at |-> at]
NoExc == Exc("none", "", 0)

\* ---------------------------------------------------------- SlidePlanner
\* str.strip(): drops the surrounding whitespace, keeps the text.
Strip(content) == [content EXCEPT !.pad = FALSE]

\* json.loads: the value of a JSON document, JSONDecodeError for any other
\* text (a code fence or prose is not a JSON document).
JsonLoads(content) ==
    IF content.form = "json"
    THEN [ok |-> TRUE, value |-> content.value, exc |-> NoExc]
    ELSE [ok |-> FALSE, value |-> NoValue,
          exc |-> Exc("JSONDecodeError", "Expecting value", 0)]

\* SlidePlanner._parse_json
ParseJson(content) == JsonLoads(Strip(content))

\* SlidePlanner._is_valid: no error of the validator over the schema
IsValid(data) == SLIDE_PLAN_SCHEMA(data)

\* One chat request and what came back for it.
ChatCall(kind, topic, bad_output, outcome) ==
    [prompt |-> kind, topic |-> topic, bad_output |-> bad_output,
     ok |-> outcome.ok, content |-> outcome.content]

HTTPError == Exc("HTTPStatusError", "chat/completions", 0)

\* SlidePlanner._repair_json: one chat call carrying the invalid output,
\* then _parse_json of the answer.
RepairJson(topic, bad_output, outcome) ==
    LET call == ChatCall("repair", topic, bad_output, outcome) IN
    IF ~outcome.ok
    THEN [ok |-> FALSE, value |-> NoValue, exc |-> HTTPError, chat |-> <<call>>]
    ELSE LET parsed == ParseJson(outcome.content) IN
         [ok |-> parsed.ok, value |-> parsed.value, exc |-> parsed.exc,
          chat |-> <<call>>]

GenReturn(data, chat) == [ok |-> TRUE, data |-> data, exc |-> NoExc, chat |-> chat]
GenRaise(exc, chat) == [ok |-> FALSE, data |-> NoValue, exc |-> exc, chat |-> chat]

InvalidAfterRepair == Exc("ValueError", "AI output is invalid after repair", 0)

\* generate as it would be if the repaired output were returned unchecked
GenerateUnchecked(topic, first, second) ==
    LET call1 == ChatCall("plan", topic, NoContent, first) IN
    IF ~first.ok THEN GenRaise(HTTPError, <<call1>>)
    ELSE
      LET parsed == ParseJson(first.content) IN
      IF ~parsed.ok THEN GenRaise(parsed.exc, <<call1>>)
      ELSE IF ~IsValid(parsed.value)
      THEN LET repaired == RepairJson(topic, first.content, second)
               chat == <<call1>> \o repaired.chat
           IN  IF ~repaired.ok THEN GenRaise(repaired.exc, chat)
               ELSE GenReturn(repaired.value, chat)
      ELSE GenReturn(parsed.value, <<call1>>)

\* generate as it would be if an invalid repair were repaired once more
GenerateRepairTwice(topic, first, second) ==
    LET call1 == ChatCall("plan", topic, NoContent, first) IN
    IF ~first.ok THEN GenRaise(HTTPError, <<call1>>)
    ELSE
      LET parsed == ParseJson(first.content) IN
      IF ~parsed.ok THEN GenRaise(parsed.exc, <<call1>>)
      ELSE IF ~IsValid(parsed.value)
      THEN LET repaired == RepairJson(topic, first.content, second)
               chat == <<call1>> \o repaired.chat
           IN  IF ~repaired.ok THEN GenRaise(repaired.exc, chat)
               ELSE IF ~IsValid(repaired.value)
               THEN LET again == RepairJson(topic, second.content, second)
                        chat3 == chat \o again.chat
                    IN  IF again.ok /\ IsValid(again.value)
                        THEN GenReturn(again.value, chat3)
                        ELSE GenRaise(InvalidAfterRepair, chat3)
               ELSE GenReturn(repaired.value, chat)
      ELSE GenReturn(parsed.value, <<call1>>)

\* SlidePlanner.generate.  first / second are what the chat API does on the
\* first and (if it comes to that) the second request.
Generate(topic, first, second) ==
    LET call1 == ChatCall("plan", topic, NoContent, first) IN
    IF ~first.ok THEN GenRaise(HTTPError, <<call1>>)
    ELSE
      LET parsed == ParseJson(first.content) IN
      IF ~parsed.ok THEN GenRaise(parsed.exc, <<call1>>)
      ELSE IF ~IsValid(parsed.value)
      THEN LET repaired == RepairJson(topic, first.content, second)
               chat == <<call1>> \o repaired.chat
           IN  IF ~repaired.ok THEN GenRaise(repaired.exc, chat)
               ELSE IF ~IsValid(repaired.value)
               THEN GenRaise(InvalidAfterRepair, chat)
               ELSE GenReturn(repaired.value, chat)
      ELSE GenReturn(parsed.value, <<call1>>)

\* Slide dataclass built by to_slide_plan from one slide dict
ToSlide(sl) ==
    [slide_type |-> sl.slide_type.s,
     heading |-> sl.heading.s,
     bullet_points |-> [i \in 1..Len(sl.bullet_points.items) |->
                            sl.bullet_points.items[i].s],
     image_prompt |-> sl.image_prompt.s]

\* to_slide_plan
ToSlidePlan(data) ==
    [topic |-> data.topic.s,
     slides |-> [i \in 1..Len(data.slides.items) |-> ToSlide(data.slides.items[i])]]

NoPlan == [topic |-> "", slides |-> <<>>]

\* SlidePlanner.generate_plan
GeneratePlan(topic, first, second) ==
    LET g == Generate(topic, first, second) IN
    [ok |-> g.ok, data |-> g.data, exc |-> g.exc, chat |-> g.chat,
     plan |-> IF g.ok THEN ToSlidePlan(g.data) ELSE NoPlan]

\* ----------------------------------------------------------- environment
\* An environment variable: unset, or set to a string.
EnvUnset == [set |-> FALSE, val |-> ""]
EnvSet(v) == [set |-> TRUE, val |-> v]
\* os.environ.get(name, default)
EnvGet(var, default) == IF var.set THEN var.val ELSE default

\* -------------------------------------------------------- image providers
\* Image bytes are known by where they came from: the host that served
\* them, the number n of the request (among those the provider made to get
\* them) whose response they are, and the prompt they were asked for.
Bytes(src, n, prompt) == [src |-> src, n |-> n, prompt |-> prompt]
NoBytes == Bytes("none", 0, "")

\* One HTTP request and whether it ended in a 2xx response.
Http(host, n, ok) == [host |-> host, n |-> n, ok |-> ok]

\* What a provider call did: returned content or raised exc, having made
\* the HTTP requests http, the _fetch_image_bytes calls fetches and the
\* ChainedImageProvider.generate calls chains.
ProvReturn(content, http, fetches, chains) ==
    [ok |-> TRUE, content |-> content, exc |-> NoExc,
     http |-> http, fetches |-> fetches, chains |-> chains]
ProvRaise(exc, http, fetches, chains) ==
    [ok |-> FALSE, content |-> NoBytes, exc |-> exc,
     http |-> http, fetches |-> fetches, chains |-> chains]

\* OpenAIClient.images: POST images/generations, read the url, GET it.
\* pos: HTTP requests made so far.  The set of everything it can do.
OpenAIImages(prompt, pos) ==
    { ProvRaise(Exc("HTTPStatusError", "images/generations", pos + 1),
                <<Http("openai", pos + 1, FALSE)>>, <<>>, <<>>),
      ProvRaise(Exc("RuntimeError", "Image URL missing in response", pos + 1),
                <<Http("openai", pos + 1, TRUE)>>, <<>>, <<>>),
      ProvRaise(Exc("HTTPStatusError", "image url", pos + 2),
                <<Http("openai", pos + 1, TRUE), Http("openai", pos + 2, FALSE)>>,
                <<>>, <<>>),
      ProvReturn(Bytes("openai", 2, prompt),
                 <<Http("openai", pos + 1, TRUE), Http("openai", pos + 2, TRUE)>>,
                 <<>>, <<>>) }

\* The record of one _fetch_image_bytes call.
FetchCall(url, http, ok, content, exc) ==
    [url |-> url, attempts |-> http, ok |-> ok, content |-> content, exc |-> exc]

\* The loop of _fetch_image_bytes from attempt k on: every way attempts
\* k..FetchAttempts can go.  http: the requests of attempts 1..k-1.
RECURSIVE FetchLoop(_, _, _, _, _)
\* the loop as it would be with range(4)
FetchLoopOneMore(url, pos, k, last_exc, http) ==
    IF k > FetchAttempts + 1
    THEN LET exc == IF last_exc # NoExc THEN last_exc
                    ELSE Exc("RuntimeError", "Image download failed", 0)
         IN  { ProvRaise(exc, http, <<FetchCall(url, http, FALSE, NoBytes, exc)>>, <<>>) }
    ELSE LET n == pos + Len(http) + 1
             good == Append(http, Http(url.host, n, TRUE))
             bad == Append(http, Http(url.host, n, FALSE))
             content == Bytes(url.host, k, url.query)
         IN  { ProvReturn(content, good,
                          <<FetchCall(url, good, TRUE, content, NoExc)>>, <<>>) }
             \cup FetchLoop(url, pos, k + 1, Exc("HTTPStatusError", url.host, n), bad)

FetchLoop(url, pos, k, last_exc, http) ==
    IF k > FetchAttempts
    THEN LET exc == IF last_exc # NoExc THEN last_exc
                    ELSE Exc("RuntimeError", "Image download failed", 0)
         IN  { ProvRaise(exc, http, <<FetchCall(url, http, FALSE, NoBytes, exc)>>, <<>>) }
    ELSE LET n == pos + Len(http) + 1
             good == Append(http, Http(url.host, n, TRUE))
             bad == Append(http, Http(url.host, n, FALSE))
             content == Bytes(url.host, k, url.query)
         IN  { ProvReturn(content, good,
                          <<FetchCall(url, good, TRUE, content, NoExc)>>, <<>>) }
             \cup FetchLoop(url, pos, k + 1, Exc("HTTPStatusError", url.host, n), bad)

\* _fetch_image_bytes
FetchImageBytes(url, pos) == FetchLoop(url, pos, 1, NoExc, <<>>)

Url(host, query, follow) == [host |-> host, query |-> query, follow_redirects |-> follow]

\* StockImageProvider.generate (the seed is a function of the prompt)
StockGenerate(prompt, pos) == FetchImageBytes(Url("picsum", prompt, FALSE), pos)

\* UnsplashImageProvider.generate
UnsplashGenerate(prompt, pos) == FetchImageBytes(Url("unsplash", prompt, TRUE), pos)

\* provider.generate(prompt) of a provider that is not a chain
LeafGenerate(kind, prompt, pos) ==
    CASE kind = "openai" -> OpenAIImages(prompt, pos)
      [] kind = "unsplash" -> UnsplashGenerate(prompt, pos)
      [] kind = "stock" -> StockGenerate(prompt, pos)

\* The record of one ChainedImageProvider.generate call: the providers it
\* invoked, in the order it invoked them, each with how it ended.
Invocation(idx, kind, r) ==
    [idx |-> idx, kind |-> kind, ok |-> r.ok, content |-> r.content, exc |-> r.exc]
ChainCall(providers, invoked, ok, content, exc) ==
    [providers |-> providers, invoked |-> invoked, ok |-> ok,
     content |-> content, exc |-> exc]

\* The loop of ChainedImageProvider.generate from provider i on.
RECURSIVE ChainLoop(_, _, _, _, _, _, _, _)
\* the loop as it would be if it kept the first exception, not the last
ChainLoopFirstExc(providers, prompt, pos, i, last_exc, invoked, http, fetches) ==
    IF i > Len(providers)
    THEN LET exc == IF last_exc # NoExc THEN last_exc
                    ELSE Exc("RuntimeError", "No image providers configured", 0)
         IN  { ProvRaise(exc, http, fetches,
                         <<ChainCall(providers, invoked, FALSE, NoBytes, exc)>>) }
    ELSE UNION {
           LET inv == Append(invoked, Invocation(i, providers[i], r))
               h == http \o r.http
               f == fetches \o r.fetches
           IN  IF r.ok
               THEN { ProvReturn(r.content, h, f,
                                 <<ChainCall(providers, inv, TRUE, r.content, NoExc)>>) }
               ELSE ChainLoop(providers, prompt, pos, i + 1,
                              IF last_exc # NoExc THEN last_exc ELSE r.exc, inv, h, f)
           : r \in LeafGenerate(providers[i], prompt, pos + Len(http)) }

ChainLoop(providers, prompt, pos, i, last_exc, invoked, http, fetches) ==
    IF i > Len(providers)
    THEN LET exc == IF last_exc # NoExc THEN last_exc
                    ELSE Exc("RuntimeError", "No image providers configured", 0)
         IN  { ProvRaise(exc, http, fetches,
                         <<ChainCall(providers, invoked, FALSE, NoBytes, exc)>>) }
    ELSE UNION {
           LET inv == Append(invoked, Invocation(i, providers[i], r))
               h == http \o r.http
               f == fetches \o r.fetches
           IN  IF r.ok
               THEN { ProvReturn(r.content, h, f,
                                 <<ChainCall(providers, inv, TRUE, r.content, NoExc)>>) }
               ELSE ChainLoop(providers, prompt, pos, i + 1, r.exc, inv, h, f)
           : r \in LeafGenerate(providers[i], prompt, pos + Len(http)) }

\* ChainedImageProvider.generate
ChainedGenerate(providers, prompt, pos) ==
    ChainLoop(providers, prompt, pos, 1, NoExc, <<>>, <<>>, <<>>)

\* An ImageProvider: a chain over a list of providers, or a single one.
Chained(providers) == [kind |-> "chained", providers |-> providers]
Leaf(kind) == [kind |-> kind, providers |-> <<>>]
None == [kind |-> "None", providers |-> <<>>]

\* provider.generate(prompt), dispatched on the provider's class
ProviderGenerate(p, prompt, pos) ==
    IF p.kind = "chained" THEN ChainedGenerate(p.providers, prompt, pos)
    ELSE LeafGenerate(p.kind, prompt, pos)

\* ------------------------------------------------------------ file names
RECURSIVE Digits(_)
Digits(n) == IF n < 10 THEN <<n>> ELSE Append(Digits(n \div 10), n % 10)

\* format(idx, "02d"): the decimal digits, zero-padded on the left to width 2
Format02d(idx) ==
    LET d == Digits(idx) IN
    IF Len(d) < FilenameWidth THEN Repeat(0, FilenameWidth - Len(d)) \o d ELSE d

\* f"slide_{idx:02d}.png"
Filename(idx) == [stem |-> "slide_", digits |-> Format02d(idx), ext |-> ".png"]

\* pathlib: output_dir / filename
Path(dir, name) == [dir |-> dir, name |-> name]
NoPath == Path("None", [stem |-> "", digits |-> <<>>, ext |-> ""])

\* Path.exists() against the files on disk
Exists(path, files) == path \in DOMAIN files

\* Path.write_bytes: creates or replaces the file
WriteBytes(files, path, content) ==
    [p \in DOMAIN files \cup {path} |-> IF p = path THEN content ELSE files[p]]

\* Path.mkdir(parents=True, exist_ok=True)
Mkdir(dirs, d) == dirs \cup {d} \cup (IF d = "output/images" THEN {"output"} ELSE {})

\* ----------------------------------------------------------- ImageService
ImageService(output_dir, primary, fallback) ==
    [output_dir |-> output_dir, primary |-> primary, fallback |-> fallback]

\* ImageService._placeholder_image: a PNG drawn from the prompt
PlaceholderImage(prompt) == Bytes("placeholder", 0, prompt)

RequireRealError ==
    Exc("RuntimeError",
        "Image generation failed. Disable REQUIRE_REAL_IMAGES or allow placeholders.", 0)

\* _handle_image_failure as it would be if any set value meant "required"
HandleImageFailureTruthy(requireReal, prompt) ==
    IF EnvGet(requireReal, "0") # "0"
    THEN [ok |-> FALSE, content |-> NoBytes, exc |-> RequireRealError]
    ELSE [ok |-> TRUE, content |-> PlaceholderImage(prompt), exc |-> NoExc]

\* _handle_image_failure as it would be if it never looked at the variable
HandleImageFailureLenient(requireReal, prompt) ==
    [ok |-> TRUE, content |-> PlaceholderImage(prompt), exc |-> NoExc]

\* ImageService._handle_image_failure
HandleImageFailure(requireReal, prompt) ==
    IF EnvGet(requireReal, "0") = "1"
    THEN [ok |-> FALSE, content |-> NoBytes, exc |-> RequireRealError]
    ELSE [ok |-> TRUE, content |-> PlaceholderImage(prompt), exc |-> NoExc]

\* How one provider of the service ended (called: it was asked at all).
Ended(called, r) ==
    [called |-> called, ok |-> r.ok, content |-> r.content, exc |-> r.exc]
NotCalled == [called |-> FALSE, ok |-> FALSE, content |-> NoBytes, exc |-> NoExc]

\* The end of generate_image: target.write_bytes(content); return target --
\* or the exception of _handle_image_failure leaving the function.
ImageResult(prompt, filename, target, primary, fallback, failure, final, files, dirs, http, fetches, chains) ==
    [prompt |-> prompt, filename |-> filename, target |-> target,
     primary |-> primary, fallback |-> fallback, placeholder |-> failure,
     ok |-> final.ok,
     path |-> IF final.ok THEN target ELSE NoPath,
     content |-> final.content, exc |-> final.exc,
     wrote |-> final.ok,
     files |-> IF final.ok THEN WriteBytes(files, target, final.content) ELSE files,
     dirs |-> dirs, http |-> http, fetches |-> fetches, chains |-> chains]

\* ImageService.generate_image: every way the call can go.
GenerateImage(service, requireReal, prompt, filename, files, dirs) ==
    LET target == Path(service.output_dir, filename)
        made == Mkdir(dirs, service.output_dir)
        Done(p, f, failure, final, h, fe, ch) ==
            ImageResult(prompt, filename, target, p, f, failure, final,
                        files, made, h, fe, ch)
        Failure(p, f, h, fe, ch) ==
            Done(p, f, TRUE, HandleImageFailure(requireReal, prompt), h, fe, ch)
    IN  UNION {
          IF r1.ok
          THEN { Done(Ended(TRUE, r1), NotCalled, FALSE, r1,
                      r1.http, r1.fetches, r1.chains) }
          ELSE IF service.fallback # None
          THEN { IF r2.ok
                 THEN Done(Ended(TRUE, r1), Ended(TRUE, r2), FALSE, r2,
                           r1.http \o r2.http, r1.fetches \o r2.fetches,
                           r1.chains \o r2.chains)
                 ELSE Failure(Ended(TRUE, r1), Ended(TRUE, r2),
                              r1.http \o r2.http, r1.fetches \o r2.fetches,
                              r1.chains \o r2.chains)
                 : r2 \in ProviderGenerate(service.fallback, prompt, Len(r1.http)) }
          ELSE { Failure(Ended(TRUE, r1), NotCalled, r1.http, r1.fetches, r1.chains) }
          : r1 \in ProviderGenerate(service.primary, prompt, 0) }

\* build_image_service
BuildImageService(output_dir, useOpenai) ==
    IF EnvGet(useOpenai, "0") = "1"
    THEN ImageService(output_dir,
                      Chained(<<"openai", "unsplash", "stock">>), None)
    ELSE ImageService(output_dir, Chained(<<"unsplash", "stock">>), None)

\* ------------------------------------------------------------- PPTBuilder
\* One slide of the presentation: its layout number, title text, the
\* paragraphs of its body and the picture placed on it (NoPath: none).
DeckSlide(layout, title, body, picture) ==
    [layout |-> layout, title |-> title, body |-> body, picture |-> picture]

\* PPTBuilder._add_title_slide
AddTitleSlide(deck, slide) ==
    Append(deck, DeckSlide(0, slide.heading, slide.bullet_points, NoPath))

\* PPTBuilder._add_section_slide: body.clear() leaves one empty paragraph,
\* add_paragraph adds one per bullet point after it
AddSectionSlide(deck, slide) ==
    Append(deck, DeckSlide(2, slide.heading, <<"">> \o slide.bullet_points, NoPath))

\* PPTBuilder._add_content_slide
AddContentSlide(deck, slide, image_path, files) ==
    Append(deck,
           DeckSlide(5, slide.heading,
                     IF slide.bullet_points = <<>> THEN <<"">> ELSE slide.bullet_points,
                     IF image_path # NoPath /\ Exists(image_path, files)
                     THEN image_path ELSE NoPath))

\* add_slide as it would be if section slides took the content branch
AddSlideSectionAsContent(deck, slide, image_path, files) ==
    IF slide.slide_type = "title" THEN AddTitleSlide(deck, slide)
    ELSE AddContentSlide(deck, slide, image_path, files)

\* PPTBuilder.add_slide
AddSlide(deck, slide, image_path, files) ==
    IF slide.slide_type = "title" THEN AddTitleSlide(deck, slide)
    ELSE IF slide.slide_type = "section" THEN AddSectionSlide(deck, slide)
    ELSE AddContentSlide(deck, slide, image_path, files)

Min(a, b) == IF a < b THEN a ELSE b

\* for slide, img in zip(slides, image_paths): builder.add_slide(...)
RECURSIVE AddZipped(_, _, _, _, _)
AddZipped(deck, slides, image_paths, files, i) ==
    IF i > Min(Len(slides), Len(image_paths)) THEN deck
    ELSE AddZipped(AddSlide(deck, slides[i], image_paths[i], files),
                   slides, image_paths, files, i + 1)

\* build_presentation
BuildPresentation(slides, image_paths, files) ==
    AddZipped(<<>>, slides, image_paths, files, 1)

\* ------------------------------------------------------------------ state
VARIABLES
    entry,        \* which entry point runs: main, or a direct call of
                  \* SlidePlanner.generate, of ImageService.generate_image
                  \* or of build_presentation
    env,          \* os.environ: OPENAI_API_KEY, REQUIRE_REAL_IMAGES, USE_OPENAI_IMAGES
    pc,           \* the statement the entry point is at
    error,        \* the exception that ended it (NoExc: none)
    chatLog,      \* the OpenAIClient.chat calls made, with their answers
    gen,          \* what SlidePlanner.generate returned
    plan,         \* main: plan
    service,      \* the ImageService
    idx,          \* loop index of the running for-loop (1-based)
    image_paths,  \* main: image_paths
    imgCalls,     \* the generate_image calls made: prompt, filename, outcome
    lastImg,      \* the latest generate_image call in full
    dirs,         \* directories on disk
    files,        \* image files on disk: path -> bytes
    addCalls,     \* the add_slide calls made: slide, image_path
    deck,         \* PPTBuilder.presentation.slides
    saves         \* presentation files written: path, slides

vars == <<entry, env, pc, error, chatLog, gen, plan, service, idx, image_paths,
          imgCalls, lastImg, dirs, files, addCalls, deck, saves>>

ApiKeyVars == {EnvUnset, EnvSet(" "), EnvSet("sk-test")}
RequireRealVars == {EnvUnset, EnvSet("1"), EnvSet("true")}
UseOpenaiVars == {EnvUnset, EnvSet("1")}

\* str.strip() of an environment value: blanks only become ""
StripVal(v) == IF v = " " THEN "" ELSE v

\* OpenAIClient.__init__: RuntimeError unless OPENAI_API_KEY is non-blank
OpenAIClientInit(apiKey) ==
    IF StripVal(EnvGet(apiKey, "")) = ""
    THEN [ok |-> FALSE, exc |-> Exc("RuntimeError", "OPENAI_API_KEY is required", 0)]
    ELSE [ok |-> TRUE, exc |-> NoExc]

\* parse_args defaults
ImageDir == "output/images"
OutputPath == Path("output", [stem |-> "presentation", digits |-> <<>>, ext |-> ".pptx"])

NoService == ImageService("", None, None)
NoFiles == [p \in {} |-> NoBytes]
NoGen == [called |-> FALSE, ok |-> FALSE, data |-> NoValue]
NoImg ==
    ImageResult("", Filename(0), NoPath, NotCalled, NotCalled, FALSE,
                [ok |-> FALSE, content |-> NoBytes, exc |-> NoExc],
                NoFiles, {}, <<>>, <<>>, <<>>)

\* Sequences over S of length lo..hi
SeqsUpTo(S, lo, hi) == UNION { [1..n -> S] : n \in lo..hi }

\* Services a caller can construct directly.
Leaves == {"openai", "unsplash", "stock"}
DirectPrimaries ==
    { Leaf(k) : k \in Leaves }
    \cup { Chained(ps) : ps \in SeqsUpTo(Leaves, 0, MaxChain) }
DirectFallbacks == {None, Leaf("stock"), Chained(<<"unsplash">>)}

\* Arguments a caller can give build_presentation.
SampleSlides == { ToSlide(GoodSlide(k, 0)) : k \in 1..3 }
OldPath == Path(ImageDir, Filename(1))
SamplePaths == {NoPath, OldPath, Path(ImageDir, Filename(2))}
OldBytes == Bytes("picsum", 1, "sunrise")

InitCommon ==
    /\ error = NoExc
    /\ chatLog = <<>>
    /\ gen = NoGen
    /\ plan = NoPlan
    /\ idx = 0
    /\ image_paths = <<>>
    /\ imgCalls = <<>>
    /\ lastImg = NoImg
    /\ dirs = {}
    /\ addCalls = <<>>
    /\ deck = <<>>
    /\ saves = <<>>

\* python main.py <topic>
InitMain ==
    /\ entry = "main"
    /\ env \in [apiKey : ApiKeyVars, requireReal : RequireRealVars,
                useOpenai : UseOpenaiVars]
    /\ pc = "planner"
    /\ service = NoService
    /\ files = NoFiles
    /\ InitCommon

\* ImageService(output_dir, primary, fallback).generate_image(...)
InitGenerateImage ==
    /\ entry = "generate_image"
    /\ env \in [apiKey : {EnvSet("sk-test")}, requireReal : RequireRealVars,
                useOpenai : {EnvUnset}]
    /\ pc = "call"
    /\ service \in { ImageService(ImageDir, p, f) :
                        p \in DirectPrimaries, f \in DirectFallbacks }
    /\ files = NoFiles
    /\ InitCommon

\* SlidePlanner().generate(topic)
InitGenerate ==
    /\ entry = "generate"
    /\ env = [apiKey |-> EnvSet("sk-test"), requireReal |-> EnvUnset,
              useOpenai |-> EnvUnset]
    /\ pc = "call"
    /\ service = NoService
    /\ files = NoFiles
    /\ InitCommon

\* build_presentation(slides, image_paths), possibly over files of an
\* earlier run
InitBuildPresentation ==
    /\ entry = "build_presentation"
    /\ env = [apiKey |-> EnvUnset, requireReal |-> EnvUnset, useOpenai |-> EnvUnset]
    /\ pc = "call"
    /\ service = NoService
    /\ files \in {NoFiles, WriteBytes(NoFiles, OldPath, OldBytes)}
    /\ InitCommon

Init == InitMain \/ InitGenerate \/ InitGenerateImage \/ InitBuildPresentation

\* ---------------------------------------------------------------- actions
Summary(r) == [prompt |-> r.prompt, filename |-> r.filename, ok |-> r.ok, path |-> r.path]

\* PPTBuilder.save
Save(log, path, slides) == Append(log, [path |-> path, slides |-> slides])

Fail(exc) == /\ pc' = "failed"
             /\ error' = exc

\* main: planner = SlidePlanner()
MainConstructPlanner ==
    /\ entry = "main" /\ pc = "planner"
    /\ LET c == OpenAIClientInit(env.apiKey) IN
       IF c.ok THEN pc' = "generate_plan" /\ error' = error
       ELSE Fail(c.exc)
    /\ UNCHANGED <<entry, env, chatLog, gen, plan, service, idx, image_paths,
                   imgCalls, lastImg, dirs, files, addCalls, deck, saves>>

\* main: plan = planner.generate_plan(args.topic)
MainGeneratePlan ==
    /\ entry = "main" /\ pc = "generate_plan"
    /\ \E topic \in Topics, first \in MainChatOutcomes, second \in MainChatOutcomes :
          LET g == GeneratePlan(topic, first, second) IN
          /\ chatLog' = chatLog \o g.chat
          /\ gen' = [called |-> TRUE, ok |-> g.ok, data |-> g.data]
          /\ plan' = g.plan
          /\ IF g.ok THEN pc' = "build_service" /\ error' = error
             ELSE Fail(g.exc)
    /\ UNCHANGED <<entry, env, service, idx, image_paths, imgCalls, lastImg,
                   dirs, files, addCalls, deck, saves>>

\* main: image_service = build_image_service(image_dir); image_paths = []
\* (OpenAIImageProvider() reads the OPENAI_API_KEY that SlidePlanner() already
\* found set, so constructing it does not raise here)
MainBuildImageService ==
    /\ entry = "main" /\ pc = "build_service"
    /\ service' = BuildImageService(ImageDir, env.useOpenai)
    /\ image_paths' = <<>>
    /\ idx' = 1
    /\ pc' = "images"
    /\ UNCHANGED <<entry, env, error, chatLog, gen, plan, imgCalls, lastImg,
                   dirs, files, addCalls, deck, saves>>

\* the image loop as it would be if it caught the exception of
\* generate_image and went on without the image
MainGenerateImageSwallow ==
    /\ entry = "main" /\ pc = "images"
    /\ idx <= Len(plan.slides)
    /\ \E r \in GenerateImage(service, env.requireReal, plan.slides[idx].image_prompt,
                              Filename(idx), files, dirs) :
          /\ imgCalls' = Append(imgCalls, Summary(r))
          /\ lastImg' = r
          /\ dirs' = r.dirs
          /\ files' = r.files
          /\ image_paths' = Append(image_paths, r.path)
          /\ idx' = idx + 1
    /\ UNCHANGED <<entry, env, pc, error, chatLog, gen, plan, service, addCalls,
                   deck, saves>>

\* the image loop as it would be with enumerate(plan.slides): idx from 0
MainGenerateImageFromZero ==
    /\ entry = "main" /\ pc = "images"
    /\ idx <= Len(plan.slides)
    /\ \E r \in GenerateImage(service, env.requireReal, plan.slides[idx].image_prompt,
                              Filename(idx - 1), files, dirs) :
          /\ imgCalls' = Append(imgCalls, Summary(r))
          /\ lastImg' = r
          /\ dirs' = r.dirs
          /\ files' = r.files
          /\ IF r.ok
             THEN /\ image_paths' = Append(image_paths, r.path)
                  /\ idx' = idx + 1
                  /\ pc' = pc /\ error' = error
             ELSE /\ Fail(r.exc)
                  /\ UNCHANGED <<image_paths, idx>>
    /\ UNCHANGED <<entry, env, chatLog, gen, plan, service, addCalls, deck, saves>>

\* main: one iteration of the image loop
MainGenerateImage ==
    /\ entry = "main" /\ pc = "images"
    /\ idx <= Len(plan.slides)
    /\ \E r \in GenerateImage(service, env.requireReal, plan.slides[idx].image_prompt,
                              Filename(idx), files, dirs) :
          /\ imgCalls' = Append(imgCalls, Summary(r))
          /\ lastImg' = r
          /\ dirs' = r.dirs
          /\ files' = r.files
          /\ IF r.ok
             THEN /\ image_paths' = Append(image_paths, r.path)
                  /\ idx' = idx + 1
                  /\ pc' = pc /\ error' = error
             ELSE /\ Fail(r.exc)
                  /\ UNCHANGED <<image_paths, idx>>
    /\ UNCHANGED <<entry, env, chatLog, gen, plan, service, addCalls, deck, saves>>

\* main: the image loop is over; builder = PPTBuilder()
MainNewBuilder ==
    /\ entry = "main" /\ pc = "images"
    /\ idx > Len(plan.slides)
    /\ deck' = <<>>
    /\ idx' = 1
    /\ pc' = "render"
    /\ UNCHANGED <<entry, env, error, chatLog, gen, plan, service, image_paths,
                   imgCalls, lastImg, dirs, files, addCalls, saves>>

\* main: one iteration of for slide, image_path in zip(plan.slides, image_paths)
MainAddSlide ==
    /\ entry = "main" /\ pc = "render"
    /\ idx <= Min(Len(plan.slides), Len(image_paths))
    /\ deck' = AddSlide(deck, plan.slides[idx], image_paths[idx], files)
    /\ addCalls' = Append(addCalls, [slide |-> plan.slides[idx],
                                     image_path |-> image_paths[idx]])
    /\ idx' = idx + 1
    /\ UNCHANGED <<entry, env, pc, error, chatLog, gen, plan, service, image_paths,
                   imgCalls, lastImg, dirs, files, saves>>

\* main: builder.save(output_path)
MainSave ==
    /\ entry = "main" /\ pc = "render"
    /\ idx > Min(Len(plan.slides), Len(image_paths))
    /\ dirs' = Mkdir(dirs, OutputPath.dir)
    /\ saves' = Save(saves, OutputPath, deck)
    /\ pc' = "done"
    /\ UNCHANGED <<entry, env, error, chatLog, gen, plan, service, idx, image_paths,
                   imgCalls, lastImg, files, addCalls, deck>>

\* A direct call planner.generate(topic)
CallGenerate ==
    /\ entry = "generate" /\ pc = "call"
    /\ \E topic \in Topics, first \in ChatOutcomes, second \in ChatOutcomes :
          LET g == Generate(topic, first, second) IN
          /\ chatLog' = chatLog \o g.chat
          /\ gen' = [called |-> TRUE, ok |-> g.ok, data |-> g.data]
          /\ IF g.ok THEN pc' = "done" /\ error' = error
             ELSE Fail(g.exc)
    /\ UNCHANGED <<entry, env, plan, service, idx, image_paths, imgCalls, lastImg,
                   dirs, files, addCalls, deck, saves>>

\* A direct call service.generate_image(prompt, filename)
CallGenerateImage ==
    /\ entry = "generate_image" /\ pc = "call"
    /\ \E r \in GenerateImage(service, env.requireReal, Prompts[1], Filename(1),
                              files, dirs) :
          /\ imgCalls' = Append(imgCalls, Summary(r))
          /\ lastImg' = r
          /\ dirs' = r.dirs
          /\ files' = r.files
          /\ IF r.ok
             THEN /\ image_paths' = Append(image_paths, r.path)
                  /\ pc' = "done" /\ error' = error
             ELSE /\ Fail(r.exc)
                  /\ UNCHANGED image_paths
    /\ UNCHANGED <<entry, env, chatLog, gen, plan, service, idx, addCalls, deck, saves>>

\* A direct call build_presentation(slides, image_paths)
CallBuildPresentation ==
    /\ entry = "build_presentation" /\ pc = "call"
    /\ \E slides \in SeqsUpTo(SampleSlides, 0, MaxDeck),
          paths \in SeqsUpTo(SamplePaths, 0, MaxDeck) :
          /\ deck' = BuildPresentation(slides, paths, files)
          /\ addCalls' = [i \in 1..Min(Len(slides), Len(paths)) |->
                            [slide |-> slides[i], image_path |-> paths[i]]]
    /\ pc' = "done"
    /\ UNCHANGED <<entry, env, error, chatLog, gen, plan, service, idx, image_paths,
                   imgCalls, lastImg, dirs, files, saves>>

Next ==
    \/ MainConstructPlanner
    \/ MainGeneratePlan
    \/ MainBuildImageService
    \/ MainGenerateImage
    \/ MainNewBuilder
    \/ MainAddSlide
    \/ MainSave
    \/ CallGenerate
    \/ CallGenerateImage
    \/ CallBuildPresentation

Spec == Init /\ [][Next]_vars

\* ================================================================ claims
AllFailed(r) == ~r.primary.ok /\ (service.fallback = None \/ ~r.fallback.ok)
RequireReal == EnvGet(env.requireReal, "0") = "1"
FirstValid ==
    /\ chatLog[1].ok
    /\ ParseJson(chatLog[1].content).ok
    /\ SLIDE_PLAN_SCHEMA(ParseJson(chatLog[1].content).value)

\* C1: whatever SlidePlanner.generate returns satisfies SLIDE_PLAN_SCHEMA and
\* is the parsed answer of the last chat call made (the first answer, or
\* else the repaired one); a call that does not return raises; the plan
\* main renders is that validated value converted by to_slide_plan.
C1_ReturnedPlanIsValid ==
    /\ gen.called /\ gen.ok =>
          /\ SLIDE_PLAN_SCHEMA(gen.data)
          /\ chatLog[Len(chatLog)].ok
          /\ ParseJson(chatLog[Len(chatLog)].content).ok
          /\ gen.data = ParseJson(chatLog[Len(chatLog)].content).value
          /\ entry = "main" => plan = ToSlidePlan(gen.data)
    /\ gen.called /\ ~gen.ok => pc = "failed" /\ error # NoExc /\ plan = NoPlan
    /\ ~gen.called => plan = NoPlan
    /\ (imgCalls # <<>> \/ addCalls # <<>>) /\ entry = "main" =>
          gen.ok /\ SLIDE_PLAN_SCHEMA(gen.data)

\* C1 witness: main ran to the end on a plan that came from the repair call
C1_Witness ==
    /\ entry = "main" /\ pc = "done"
    /\ gen.ok /\ Len(chatLog) = 2 /\ chatLog[2].prompt = "repair"

\* C2: whenever the first answer is not a valid slide plan (it does not parse,
\* or it parses and violates the schema), generate has sent a repair request
\* carrying that answer by the time it has ended.
C2_RepairBeforeFailure ==
    gen.called /\ chatLog[1].ok /\ ~FirstValid =>
       /\ Len(chatLog) >= 2
       /\ chatLog[2].prompt = "repair"
       /\ chatLog[2].bad_output = chatLog[1].content

\* C6: generate makes one chat call when the first answer is valid, never
\* more than two, the second being the repair request; when the repaired
\* answer parses and fails the schema it raises ValueError("AI output is
\* invalid after repair").
C6_AtMostOneRepair ==
    gen.called =>
       /\ Len(chatLog) \in 1..2
       /\ chatLog[1].prompt = "plan"
       /\ FirstValid => Len(chatLog) = 1 /\ gen.ok
       /\ Len(chatLog) = 2 =>
             /\ chatLog[2].prompt = "repair"
             /\ ( /\ chatLog[2].ok
                  /\ ParseJson(chatLog[2].content).ok
                  /\ ~SLIDE_PLAN_SCHEMA(ParseJson(chatLog[2].content).value) )
                => ~gen.ok /\ error = InvalidAfterRepair /\ pc = "failed"

\* C6 witness: the repaired answer parsed and failed the schema
C6_Witness ==
    /\ gen.called /\ Len(chatLog) = 2
    /\ chatLog[2].ok /\ ParseJson(chatLog[2].content).ok
    /\ error = InvalidAfterRepair

\* C3: with REQUIRE_REAL_IMAGES other than "1", generate_image returns
\* output_dir/filename and that file holds the bytes it chose: the
\* placeholder exactly when the primary raised and the fallback is absent
\* or raised, otherwise the bytes of the first of primary, fallback that
\* returned.
C3_ImageAlwaysProduced ==
    imgCalls # <<>> /\ ~RequireReal =>
       /\ lastImg.ok
       /\ lastImg.path = Path(service.output_dir, lastImg.filename)
       /\ Exists(lastImg.path, files)
       /\ files[lastImg.path] = lastImg.content
       /\ lastImg.primary.called
       /\ lastImg.content = PlaceholderImage(lastImg.prompt) <=> AllFailed(lastImg)
       /\ lastImg.primary.ok =>
             lastImg.content = lastImg.primary.content /\ ~lastImg.fallback.called
       /\ ~lastImg.primary.ok /\ service.fallback # None =>
             /\ lastImg.fallback.called
             /\ lastImg.fallback.ok => lastImg.content = lastImg.fallback.content

\* C3 witness: REQUIRE_REAL_IMAGES is set to something other than "1",
\* primary and fallback both raised, and the placeholder was written
C3_Witness ==
    /\ imgCalls # <<>> /\ env.requireReal = EnvSet("true")
    /\ service.fallback # None /\ lastImg.fallback.called /\ ~lastImg.fallback.ok
    /\ Exists(lastImg.path, files)
    /\ files[lastImg.path] = PlaceholderImage(lastImg.prompt)

\* C7: with REQUIRE_REAL_IMAGES = "1", when the primary raised and the
\* fallback is absent or raised, generate_image raises the RuntimeError of
\* _handle_image_failure and has not written its target file.
C7_RequireRealRaises ==
    imgCalls # <<>> /\ RequireReal /\ AllFailed(lastImg) =>
       /\ ~lastImg.ok
       /\ lastImg.exc = RequireRealError
       /\ error = RequireRealError /\ pc = "failed"
       /\ ~lastImg.wrote
       /\ ~Exists(lastImg.target, files)
       /\ image_paths = [i \in 1..(Len(imgCalls) - 1) |-> imgCalls[i].path]

\* C7 witness: a service with a fallback, both providers raised, the call
\* raised and the target is not on disk
C7_Witness ==
    /\ entry = "generate_image" /\ RequireReal
    /\ lastImg.fallback.called /\ ~lastImg.fallback.ok
    /\ error = RequireRealError /\ ~Exists(lastImg.target, files)

\* C4: every ChainedImageProvider.generate call invoked a prefix of its list
\* in list order, each provider once; all but the last invoked raised; a
\* call that returned returns what the last invoked returned; a call that
\* raised invoked the whole list and raises the exception of its last
\* provider, or RuntimeError("No image providers configured") on an empty list.
C4_ChainOrder ==
    \A c \in 1..Len(lastImg.chains) :
       LET ch == lastImg.chains[c]
           n == Len(ch.providers)
           m == Len(ch.invoked)
       IN  /\ m <= n
           /\ \A j \in 1..m : /\ ch.invoked[j].idx = j
                              /\ ch.invoked[j].kind = ch.providers[j]
           /\ \A j \in 1..(m - 1) : ~ch.invoked[j].ok
           /\ ch.ok => /\ m >= 1
                       /\ ch.invoked[m].ok
                       /\ ch.content = ch.invoked[m].content
           /\ ~ch.ok => /\ m = n
                        /\ n = 0 => ch.exc = Exc("RuntimeError",
                                                 "No image providers configured", 0)
                        /\ n > 0 => ~ch.invoked[n].ok /\ ch.exc = ch.invoked[n].exc

\* C4 witness: main's chain of three (USE_OPENAI_IMAGES = "1") invoked all
\* three providers, the first two raised and the third returned
C4_Witness ==
    /\ \E c \in 1..Len(lastImg.chains) :
          /\ Len(lastImg.chains[c].providers) = 3
          /\ Len(lastImg.chains[c].invoked) = 3
          /\ lastImg.chains[c].ok
    /\ entry = "main"

\* C8: every _fetch_image_bytes call made 1..3 GET attempts; all but the
\* last failed; it returned exactly when the last succeeded, then with that
\* attempt's content; it raised only after 3 failures, with the exception
\* of the third attempt.
C8_FetchAtMostThree ==
    \A c \in 1..Len(lastImg.fetches) :
       LET f == lastImg.fetches[c]
           m == Len(f.attempts)
       IN  /\ m \in 1..FetchAttempts
           /\ \A j \in 1..(m - 1) : ~f.attempts[j].ok
           /\ f.ok <=> f.attempts[m].ok
           /\ f.ok => f.content = Bytes(f.url.host, m, f.url.query)
           /\ ~f.ok => /\ m = FetchAttempts
                       /\ f.exc = Exc("HTTPStatusError", f.url.host, f.attempts[m].n)

\* C8 witness: one fetch raised after three attempts and a later one
\* returned on its third
C8_Witness ==
    \E c, d \in 1..Len(lastImg.fetches) :
       /\ ~lastImg.fetches[c].ok /\ Len(lastImg.fetches[c].attempts) = FetchAttempts
       /\ lastImg.fetches[d].ok /\ Len(lastImg.fetches[d].attempts) = FetchAttempts

C9_PipelineOrder ==
    entry = "main" =>
       /\ (imgCalls # <<>> \/ lastImg.http # <<>> \/ DOMAIN files # {}
             \/ service # NoService) =>
             /\ gen.called /\ gen.ok /\ SLIDE_PLAN_SCHEMA(gen.data)
             /\ plan = ToSlidePlan(gen.data)
       /\ (saves # <<>> \/ addCalls # <<>> \/ pc \in {"render", "done"}) =>
             /\ Len(imgCalls) = Len(plan.slides)
             /\ \A i \in 1..Len(imgCalls) : imgCalls[i].ok
       /\ Len(saves) <= 1
       /\ saves # <<>> <=> pc = "done"
       /\ error # NoExc <=> pc = "failed"
       /\ pc = "failed" => saves = <<>> /\ addCalls = <<>>
       /\ \A i \in 1..Len(imgCalls) :
             imgCalls[i].ok => Exists(imgCalls[i].path, files)
       /\ Cardinality(DOMAIN files) =
             Cardinality({i \in 1..Len(imgCalls) : imgCalls[i].ok})

\* C9 witness: the second generate_image call raised; the first slide's
\* image is on disk and no presentation was saved
C9_Witness ==
    /\ entry = "main" /\ pc = "failed"
    /\ Len(imgCalls) = 2 /\ imgCalls[1].ok /\ ~imgCalls[2].ok
    /\ Exists(imgCalls[1].path, files) /\ saves = <<>>

\* C10: each add_slide call appends one slide, so the deck holds the slides
\* of the calls in call order (in main: the n slides of the plan in plan
\* order, and that deck is what is saved); a slide carries a picture exactly
\* when its slide_type is neither "title" nor "section", its image_path is
\* not None and the file exists, and then it is that file.
C10_DeckMatchesPlan ==
    /\ Len(deck) = Len(addCalls)
    /\ \A i \in 1..Len(deck) :
          LET a == addCalls[i] IN
          /\ deck[i].title = a.slide.heading
          /\ deck[i].picture # NoPath <=>
                /\ a.slide.slide_type \notin {"title", "section"}
                /\ a.image_path # NoPath
                /\ Exists(a.image_path, files)
          /\ deck[i].picture # NoPath => deck[i].picture = a.image_path
    /\ entry = "main" /\ pc = "done" =>
          /\ Len(deck) = Len(plan.slides)
          /\ \A i \in 1..Len(deck) : deck[i].title = plan.slides[i].heading
          /\ saves = <<[path |-> OutputPath, slides |-> deck]>>

\* C10 witness: main is done; a title or section slide whose image file
\* exists carries no picture, and a content slide carries its picture
C10_Witness ==
    /\ entry = "main" /\ pc = "done"
    /\ \E i, j \in 1..Len(deck) :
          /\ plan.slides[i].slide_type \in {"title", "section"}
          /\ Exists(image_paths[i], files)
          /\ deck[i].picture = NoPath
          /\ deck[j].picture = image_paths[j]

====
